---- MODULE Spec2Model ----
(***************************************************************************)
(* State-machine model of the docsAgent backend (src/app.py).              *)
(*                                                                         *)
(* The service runs on one asyncio event loop: a coroutine runs without    *)
(* interruption from one suspension point (an await, or a yield of a       *)
(* streamed frame to the response writer) to the next.  Each action below  *)
(* is one such run: it performs the awaited operation (a store call, a     *)
(* provider call) and the code that follows it up to the next suspension.  *)
(* scrape_multiple_websites() is synchronous (requests.get), so scraping   *)
(* is part of the step that calls it.                                      *)
(*                                                                         *)
(* Text is modelled as a sequence of tokens; NL is the newline character,  *)
(* so a blank-line separator "\n\n" is the token pair NL, NL.              *)
(*                                                                         *)
(* The store (Prisma) and the provider (Gemini) are external: any call to  *)
(* them may raise.  Message rows refer to their Chat row: create_many for  *)
(* a chat that is gone raises, and chat.delete raises while messages of    *)
(* the chat exist (delete_chat_session deletes the messages first).  The   *)
(* global `model` is taken to be initialized.  When the caller goes away,  *)
(* the response task is cancelled: stream_generator is not resumed from    *)
(* the suspension point it is at (CancelledError and GeneratorExit are not *)
(* caught by `except Exception`).  The fields allfail, calls, stored,      *)
(* wrote, warm, cancelled and gen of a request, and the variable evicted,  *)
(* record what has happened; no action reads them.                         *)
(***************************************************************************)
EXTENDS Integers, Sequences, FiniteSets, Bags, TLC

\* ---------------------------------------------------------------- bounds
\* number of /api/chat requests of one behaviour; they may all be in flight
\* at the same time, and request p + 1 arrives after request p
NumReq == 2
\* number of chat ids the store can hand out
MaxChats == 1
\* number of chunks a provider stream delivers at most
MaxChunks == 2

\* ---------------------------------------------------------------- values
Reqs == 1..NumReq
ChatIds == 1..MaxChats
NoChat == 0
NoSession == 0
NoDoc == <<"None">>
Users == {"A", "B"}
\* the question of request p; the code never inspects a question
Question(p) == <<"q", p>>
Titles == {<<"t">>}
NL == "NL"

\* a plain URL, and a URL that contains a blank line ("y\n\nz")
UrlPlain == <<"x">>
UrlBlank == <<"y", NL, NL, "z">>
UrlLists == {<< >>, <<UrlPlain>>, <<UrlBlank>>}

\* chunk.text of the k-th chunk of a provider stream: answer text (named by
\* its position), the empty text of a chunk without content, or answer text
\* that begins "Error:"
ChunkTexts(k) == {<<"a", k>>, << >>, <<"Error:">>}

\* ---------------------------------------------------------------- text
RECURSIVE JoinWith(_, _)
\* sep.join(parts)
JoinWith(sep, parts) ==
    IF Len(parts) = 0 THEN << >>
    ELSE IF Len(parts) = 1 THEN parts[1]
    ELSE parts[1] \o sep \o JoinWith(sep, Tail(parts))

RECURSIVE SplitBlank(_)
\* s.split("\n\n"): cut at each non-overlapping NL NL pair, left to right
SplitBlank(s) ==
    IF \E i \in 1..(Len(s) - 1) : s[i] = NL /\ s[i + 1] = NL
    THEN LET i == CHOOSE k \in 1..(Len(s) - 1) :
                    /\ s[k] = NL /\ s[k + 1] = NL
                    /\ \A j \in 1..(k - 1) : ~(s[j] = NL /\ s[j + 1] = NL)
         IN <<SubSeq(s, 1, i - 1)>> \o SplitBlank(SubSeq(s, i + 2, Len(s)))
    ELSE <<s>>

\* s.startswith(prefix) for a one-token prefix
StartsWith(s, tok) == Len(s) > 0 /\ s[1] = tok

\* s.strip() is a non-empty string
NonBlank(s) == \E i \in 1..Len(s) : s[i] # NL

\* s.split(': ', 1)[1]: what follows the first ": "
AfterColon(s) ==
    LET i == CHOOSE k \in 1..Len(s) :
                 s[k] = ": " /\ \A j \in 1..(k - 1) : s[j] # ": "
    IN SubSeq(s, i + 1, Len(s))

\* ---------------------------------------------------------------- scraping
\* scrape_website(url), the except branch: the tagged failure string
ScrapeError(url) == <<"Error scraping website", " (">> \o url \o <<")", ": ", "e">>
\* scrape_website(url), the success branch: the page text
ScrapeText(url) == <<"doc">>
\* scrape_website(url): "err" when the fetch raises, "ok" when it returns
ScrapeOutcomes == {"err", "ok"}
scrape_website(url, o) == IF o = "err" THEN ScrapeError(url) ELSE ScrapeText(url)

\* one block of scrape_multiple_websites for the result text of url
ScrapeBlock(url, text) ==
    IF StartsWith(text, "Error scraping website")
    THEN <<"Failed to scrape", " ">> \o url \o <<". Error: ">> \o AfterColon(text)
    ELSE <<"Content from", " ">> \o url \o <<":", NL>> \o text \o <<NL, "---">>

\* scrape_multiple_websites(urls), os[i] being the outcome of fetching urls[i]
scrape_multiple_websites(urls, os) ==
    JoinWith(<<NL, NL>>,
             [i \in 1..Len(urls) |-> ScrapeBlock(urls[i], scrape_website(urls[i], os[i]))])

\* all(text.startswith("Failed to scrape") for text in doc.split("\n\n") if text.strip())
AllFailed(doc) ==
    LET parts == SplitBlank(doc)
    IN \A i \in 1..Len(parts) :
          NonBlank(parts[i]) => StartsWith(parts[i], "Failed to scrape")


\* ---------------------------------------------------------------- state
VARIABLES
    users,      \* User rows of the store: a bag of [id, email] rows
    chats,      \* Chat rows: chat id -> [userId, title, urls]
    nextChat,   \* the id the store gives the next created chat
    messages,   \* Message rows per chat id, in creation order
    cache,      \* active_gemini_chats: chat id -> [session, history]
    sess,       \* provider sessions: session id -> completed turns in its history
    nextSess,   \* the id of the next session model.start_chat() opens
    req,        \* the /api/chat requests in flight, one record per slot
    adm,        \* the rename or delete request in flight
    evicted     \* chats whose last turn event was a provider error (history)

vars == <<users, chats, nextChat, messages, cache, sess, nextSess, req, adm,
          evicted>>

store == <<users, chats, nextChat, messages>>

IdleReq ==
    [pc |-> "idle", userId |-> "A", chatId |-> NoChat, urls |-> << >>,
     question |-> << >>, rec |-> NoChat, is_new |-> FALSE, doc |-> NoDoc,
     session |-> NoSession, full |-> << >>, n |-> 0, status |-> 0,
     frames |-> << >>, gen |-> << >>, allfail |-> FALSE, calls |-> 0,
     stored |-> 0, wrote |-> FALSE, warm |-> FALSE, cancelled |-> FALSE]

IdleAdm == [op |-> "none", pc |-> "idle", chat |-> NoChat, userId |-> "A",
            title |-> <<"t">>, status |-> 0]

Init ==
    /\ users = EmptyBag
    /\ chats = << >>
    /\ nextChat = 1
    /\ messages = [c \in ChatIds |-> << >>]
    /\ cache = << >>
    /\ sess = << >>
    /\ nextSess = 1
    /\ req = [p \in Reqs |-> IdleReq]
    /\ adm = IdleAdm
    /\ evicted = {}

\* ---------------------------------------------------------------- helpers
\* del d[k]
Remove(d, k) == [x \in (DOMAIN d) \ {k} |-> d[x]]
\* d[k] = v
Put(d, k, v) == [x \in (DOMAIN d) \cup {k} |-> IF x = k THEN v ELSE d[x]]

\* the store does not enforce the relation
RelationUnchecked(ch, m) == TRUE

\* the relation Message.chatId -> Chat.id of the relational store: in the
\* store with chat rows ch and message rows m, every message belongs to a
\* chat row.  A write that would break it raises.
RelationHolds(ch, m) == \A c \in ChatIds : m[c] # << >> => c \in DOMAIN ch

\* db.chat.find_many(where userId = u): the chats listed for user u
get_user_chats(u) == {c \in DOMAIN chats : chats[c].userId = u}

ErrFrame(text) == [kind |-> "error", text |-> text]
ContentFrame(text) == [kind |-> "content", text |-> text]
MetaFrame == [kind |-> "meta", text |-> <<"__CHAT_METADATA__">>]

\* data.userId, data.chatId and data.urls are not read after the branch of
\* api_chat has been taken and the chat record exists: the fields are cleared
Forget(r) == [r EXCEPT !.userId = "A", !.chatId = NoChat, !.urls = << >>]

\* yield frame: the frame follows the frames already sent
Deliver(frames, frame) == Append(frames, frame)

\* return JSONResponse(..., status_code=code)
Respond(r, code) == Forget([r EXCEPT !.pc = "done", !.status = code])
\* the error frame is sent but the stream is not ended
EndWithErrorNoBreak(r, text) == [r EXCEPT !.frames = Append(@, ErrFrame(text))]

\* the locals of a generator that has returned are gone
Closed(r) ==
    [r EXCEPT !.pc = "done", !.n = 0, !.doc = NoDoc, !.full = << >>,
              !.session = NoSession]

\* yield an error frame from stream_generator; the stream ends
EndWithError(r, text) ==
    [Closed(r) EXCEPT !.frames = Deliver(@, ErrFrame(text))]

\* ---------------------------------------------------------------- /api/chat
\* api_chat, the new-chat branch up to the await of db.chat.create
NewChatPath(r, os) ==
    IF r.urls = << >> THEN Respond(r, 400)
    ELSE LET doc == scrape_multiple_websites(r.urls, os)
             r1 == [r EXCEPT !.is_new = TRUE,
                             !.allfail = \A i \in 1..Len(os) : os[i] = "err"]
         IN IF AllFailed(doc) THEN Respond(r1, 500)
            ELSE [r1 EXCEPT !.doc = doc, !.pc = "create"]

\* the continue branch scraping the URLs of the request body
ResumePathClientUrls(r, c, stored, os) ==
    LET r1 == [r EXCEPT !.rec = c] IN
    IF c \in DOMAIN cache
    THEN Forget([r1 EXCEPT !.pc = "turn", !.status = 200, !.warm = TRUE])
    ELSE IF stored = << >> THEN Respond(r1, 500)
    ELSE LET doc == scrape_multiple_websites(r.urls, os)
             r2 == [r1 EXCEPT !.allfail = \A i \in 1..Len(os) : os[i] = "err"]
         IN IF AllFailed(doc) THEN Respond(r2, 500)
            ELSE Forget([r2 EXCEPT !.doc = doc, !.pc = "turn", !.status = 200])

\* api_chat, the continue branch up to the return of the StreamingResponse;
\* stored is chat_session_db_record.urls
ResumePath(r, c, stored, os) ==
    LET r1 == [r EXCEPT !.rec = c] IN
    IF c \in DOMAIN cache
    THEN Forget([r1 EXCEPT !.pc = "turn", !.status = 200, !.warm = TRUE])
    ELSE IF stored = << >> THEN Respond(r1, 500)
    ELSE LET doc == scrape_multiple_websites(stored, os)
             r2 == [r1 EXCEPT !.allfail = \A i \in 1..Len(os) : os[i] = "err"]
         IN IF AllFailed(doc) THEN Respond(r2, 500)
            ELSE Forget([r2 EXCEPT !.doc = doc, !.pc = "turn", !.status = 200])

\* the userId of request p: user ids are interchangeable, so the first
\* request is the one of user "A"
FirstUsers(p) == IF p = 1 THEN {"A"} ELSE Users

\* the request arrives; the validation of the body
Start(p) ==
    /\ req[p].pc = "idle"
    /\ \A o \in 1..(p - 1) : req[o].pc # "idle"
    /\ \E u \in FirstUsers(p), c \in ChatIds \cup {NoChat}, urls \in UrlLists :
       LET r == [IdleReq EXCEPT !.userId = u, !.chatId = c, !.urls = urls,
                                !.question = Question(p)]
       IN req' = [req EXCEPT ![p] =
                    IF urls = << >> /\ c = NoChat THEN Respond(r, 400)
                    ELSE [r EXCEPT !.pc = "upsert"]]
    /\ UNCHANGED <<store, cache, sess, nextSess, adm, evicted>>

\* the row db.user.upsert creates for user id u
UserRow(u) == [id |-> u, email |-> <<"user_", u, "@example.com">>]

\* there is a User row with id u
HasUser(rows, u) == \E row \in BagToSet(rows) : row.id = u

\* a row is created whether or not the user exists
upsertAlwaysCreates(rows, u) == rows (+) SetToBag({UserRow(u)})

\* db.user.upsert(where id = u, create the row, update nothing)
upsert(rows, u) ==
    IF HasUser(rows, u) THEN rows ELSE rows (+) SetToBag({UserRow(u)})

\* db.user.upsert returns; without a chatId the new-chat branch follows
Upsert(p) ==
    /\ req[p].pc = "upsert"
    /\ users' = upsert(users, req[p].userId)
    /\ LET r == [req[p] EXCEPT !.wrote = ~HasUser(users, req[p].userId)]
       IN IF r.chatId # NoChat
          THEN req' = [req EXCEPT ![p] = [r EXCEPT !.pc = "find"]]
          ELSE \E os \in [1..Len(r.urls) -> ScrapeOutcomes] :
                  req' = [req EXCEPT ![p] = NewChatPath(r, os)]
    /\ UNCHANGED <<chats, nextChat, messages, cache, sess, nextSess, adm, evicted>>

\* the ownership check left out
NotOwnerSkipped(r, c) == FALSE

\* chat_session_db_record.userId != user.id
NotOwner(r, c) == chats[c].userId # r.userId

\* db.chat.find_unique returns; the ownership check and the branch taken
Find(p) ==
    /\ req[p].pc = "find"
    /\ LET r == req[p]
           c == r.chatId
       IN IF c \in DOMAIN chats
          THEN IF NotOwner(r, c)
               THEN req' = [req EXCEPT ![p] = Respond(r, 403)]
               ELSE \E os \in [1..Len(chats[c].urls) -> ScrapeOutcomes] :
                       req' = [req EXCEPT ![p] = ResumePath(r, c, chats[c].urls, os)]
          ELSE IF r.urls = << >>
               THEN req' = [req EXCEPT ![p] = Respond(r, 404)]
               ELSE \E os \in [1..Len(r.urls) -> ScrapeOutcomes] :
                       req' = [req EXCEPT ![p] = NewChatPath(r, os)]
    /\ UNCHANGED <<store, cache, sess, nextSess, adm, evicted>>

\* db.chat.create returns the new record; the StreamingResponse is returned
Create(p) ==
    /\ req[p].pc = "create"
    /\ nextChat <= MaxChats
    /\ chats' = Put(chats, nextChat,
                    [userId |-> req[p].userId, title |-> req[p].urls[1],
                     urls |-> req[p].urls])
    /\ nextChat' = nextChat + 1
    /\ req' = [req EXCEPT ![p] = Forget([@ EXCEPT !.rec = nextChat, !.pc = "turn",
                                                  !.status = 200, !.wrote = TRUE])]
    /\ UNCHANGED <<users, messages, cache, sess, nextSess, adm, evicted>>

\* a store call of api_chat raises: the handler's except branch
ApiStoreError(p) ==
    /\ req[p].pc \in {"upsert", "find", "create"}
    /\ req' = [req EXCEPT ![p] = Respond(@, 500)]
    /\ UNCHANGED <<store, cache, sess, nextSess, adm,
                   evicted>>

\* ---------------------------------------------------------------- the turn
ProviderErrorText == <<"Error: Error interacting with AI">>
MissingContextText == <<"Error: Missing document context">>
EmptyText == <<"AI returned an empty response.">>
SaveFailedText == <<"Failed to save chat to database after AI response.">>

\* the except branch of get_ai_response_conversational_stream: evict the
\* chat's cache entry when there is one
Evict(c) == IF c \in DOMAIN cache THEN Remove(cache, c) ELSE cache

\* stream_generator starts the turn: the cache lookup, and for a chat without
\* a cached session model.start_chat()
TurnBegin(p) ==
    /\ req[p].pc = "turn"
    /\ LET r == req[p] IN
       IF r.rec \in DOMAIN cache
       THEN /\ req' = [req EXCEPT ![p] = [r EXCEPT !.pc = "ask",
                                          !.session = cache[r.rec].session]]
            /\ UNCHANGED <<sess, nextSess>>
       ELSE IF r.doc = NoDoc \/ r.doc = << >>
       THEN /\ req' = [req EXCEPT ![p] = EndWithError(r, MissingContextText)]
            /\ UNCHANGED <<sess, nextSess>>
       ELSE /\ req' = [req EXCEPT ![p] = [r EXCEPT !.pc = "prime",
                                                   !.session = nextSess]]
            /\ sess' = Put(sess, nextSess, 0)
            /\ nextSess' = nextSess + 1
    /\ evicted' = evicted \ {req[p].rec}
    /\ UNCHANGED <<store, cache, adm>>

\* the session is cached without the priming turn
PrimeSkipped(p) ==
    /\ req[p].pc = "prime"
    /\ LET r == req[p] IN
       /\ sess' = sess
       /\ cache' = Put(cache, r.rec,
                       [session |-> r.session, history |-> sess'[r.session]])
       /\ req' = [req EXCEPT ![p] = [r EXCEPT !.pc = "ask", !.wrote = TRUE,
                                              !.doc = NoDoc]]
    /\ UNCHANGED <<store, nextSess, adm, evicted>>

\* the priming send_message returns: the session is cached under the chat id
\* (document_text is not read after the context prompt has been sent)
Prime(p) ==
    /\ req[p].pc = "prime"
    /\ LET r == req[p] IN
       /\ sess' = [sess EXCEPT ![r.session] = @ + 1]
       /\ cache' = Put(cache, r.rec,
                       [session |-> r.session, history |-> sess'[r.session]])
       /\ req' = [req EXCEPT ![p] = [r EXCEPT !.pc = "ask", !.calls = @ + 1,
                                              !.wrote = TRUE, !.doc = NoDoc]]
    /\ UNCHANGED <<store, nextSess, adm, evicted>>

\* send_message(user_question, stream=True) returns the stream
Ask(p) ==
    /\ req[p].pc = "ask"
    /\ req' = [req EXCEPT ![p] = [@ EXCEPT !.pc = "stream", !.calls = @ + 1]]
    /\ UNCHANGED <<store, cache, sess, nextSess, adm,
                   evicted>>

\* the stream delivers its next chunk, whose text is t
StreamChunk(p) ==
    /\ req[p].pc = "stream"
    /\ req[p].n < MaxChunks
    /\ \E t \in ChunkTexts(req[p].n + 1) :
       LET r == [req[p] EXCEPT !.n = @ + 1] IN
       req' = [req EXCEPT ![p] =
                 IF t = << >> THEN r
                 ELSE IF StartsWith(t, "Error:")
                 THEN EndWithError([r EXCEPT !.gen = Append(@, t)], t)
                 ELSE [r EXCEPT !.gen = Append(@, t),
                                !.full = Append(@, t),
                                !.frames = Deliver(@, ContentFrame(t))]]
    /\ UNCHANGED <<store, cache, sess, nextSess, adm,
                   evicted>>

\* the stream is exhausted: the history mirror is refreshed, and
\* stream_generator goes on to commit the answer
StreamEnd(p) ==
    /\ req[p].pc = "stream"
    /\ LET r == req[p] IN
       /\ sess' = [sess EXCEPT ![r.session] = @ + 1]
       /\ IF r.rec \in DOMAIN cache
          THEN /\ cache' = [cache EXCEPT ![r.rec].history = sess'[r.session]]
               /\ req' = [req EXCEPT ![p] =
                            IF r.full # << >>
                            THEN [r EXCEPT !.pc = "commit", !.n = 0, !.wrote = TRUE]
                            ELSE EndWithError([r EXCEPT !.wrote = TRUE], EmptyText)]
          ELSE /\ cache' = cache
               /\ req' = [req EXCEPT ![p] = EndWithError(r, ProviderErrorText)]
    /\ UNCHANGED <<store, nextSess, adm, evicted>>

\* a provider call or the iteration of the stream raises
ProviderError(p) ==
    /\ req[p].pc \in {"prime", "ask", "stream"}
    /\ LET r == req[p] IN
       /\ cache' = Evict(r.rec)
       /\ req' = [req EXCEPT ![p] =
                    EndWithError([r EXCEPT !.calls = IF r.pc = "stream" THEN @ ELSE @ + 1,
                                           !.wrote = @ \/ r.rec \in DOMAIN cache],
                                 ProviderErrorText)]
       /\ evicted' = evicted \cup {r.rec}
    /\ UNCHANGED <<store, sess, nextSess, adm>>

\* only the question is stored
TurnMessagesUserOnly(r) == <<[role |-> "user", content |-> r.question]>>

\* the rows handed to db.message.create_many
TurnMessages(r) ==
    <<[role |-> "user", content |-> r.question],
      [role |-> "ai", content |-> r.full]>>

\* db.message.create_many commits the pair of the turn; a pair for a chat
\* that is gone violates the relation and raises
Commit(p) ==
    /\ req[p].pc = "commit"
    /\ LET r == req[p] IN
       IF RelationHolds(chats, [messages EXCEPT ![r.rec] = @ \o TurnMessages(r)])
       THEN /\ messages' = [messages EXCEPT ![r.rec] = @ \o TurnMessages(r)]
            /\ req' = [req EXCEPT ![p] = [r EXCEPT !.pc = "fetch", !.stored = Len(TurnMessages(r)),
                                                   !.wrote = TRUE]]
       ELSE /\ messages' = messages
            /\ req' = [req EXCEPT ![p] = EndWithError(r, SaveFailedText)]
    /\ UNCHANGED <<users, chats, nextChat, cache, sess, nextSess, adm, evicted>>

\* db.chat.find_unique returns the updated chat: the metadata frame
Fetch(p) ==
    /\ req[p].pc = "fetch"
    /\ LET r == req[p] IN
       req' = [req EXCEPT ![p] =
                 IF r.rec \in DOMAIN chats
                 THEN [Closed(r) EXCEPT !.frames = Deliver(@, MetaFrame)]
                 ELSE Closed(r)]
    /\ UNCHANGED <<store, cache, sess, nextSess, adm,
                   evicted>>

\* a store call of stream_generator raises
StreamStoreError(p) ==
    /\ req[p].pc \in {"commit", "fetch"}
    /\ req' = [req EXCEPT ![p] = EndWithError(@, SaveFailedText)]
    /\ UNCHANGED <<store, cache, sess, nextSess, adm,
                   evicted>>

\* the caller is gone but the generator is left running
DisconnectIgnored(p) ==
    /\ req[p].pc \in {"turn", "prime", "ask", "stream", "commit", "fetch"}
    /\ ~req[p].cancelled
    /\ req' = [req EXCEPT ![p] = [@ EXCEPT !.cancelled = TRUE]]
    /\ UNCHANGED <<store, cache, sess, nextSess, adm, evicted>>

\* the caller disconnects while the StreamingResponse is being produced:
\* stream_generator and get_ai_response_conversational_stream are closed
\* where they are suspended
Disconnect(p) ==
    /\ req[p].pc \in {"turn", "prime", "ask", "stream", "commit", "fetch"}
    /\ ~req[p].cancelled
    /\ req' = [req EXCEPT ![p] = [Closed(@) EXCEPT !.cancelled = TRUE]]
    /\ UNCHANGED <<store, cache, sess, nextSess, adm, evicted>>

\* ---------------------------------------------------------------- rename, delete
AdmRespond(code) == [adm EXCEPT !.pc = "done", !.status = code, !.title = <<"t">>]

\* rename_chat_session / delete_chat_session up to the first write
AdmStart ==
    /\ adm.pc = "idle"
    /\ \E op \in {"rename", "delete"}, c \in ChatIds, u \in Users, t \in Titles :
       LET a == [IdleAdm EXCEPT !.op = op, !.chat = c, !.userId = u, !.title = t]
       IN adm' = IF c \notin DOMAIN chats
                 THEN [a EXCEPT !.pc = "done", !.status = 404]
                 ELSE IF chats[c].userId # u
                 THEN [a EXCEPT !.pc = "done", !.status = 403]
                 ELSE [a EXCEPT !.pc = IF op = "rename" THEN "update" ELSE "delmsgs"]
    /\ UNCHANGED <<store, cache, sess, nextSess, req, evicted>>

\* the update writes the whole row from the request
RenameUpdateRewrites ==
    /\ adm.pc = "update"
    /\ IF adm.chat \in DOMAIN chats
       THEN /\ chats' = [chats EXCEPT ![adm.chat] =
                           [userId |-> adm.userId, title |-> adm.title, urls |-> << >>]]
            /\ adm' = AdmRespond(200)
       ELSE /\ chats' = chats
            /\ adm' = AdmRespond(500)
    /\ UNCHANGED <<users, nextChat, messages, cache, sess, nextSess, req, evicted>>

\* db.chat.update sets the title
RenameUpdate ==
    /\ adm.pc = "update"
    /\ IF adm.chat \in DOMAIN chats
       THEN /\ chats' = [chats EXCEPT ![adm.chat].title = adm.title]
            /\ adm' = AdmRespond(200)
       ELSE /\ chats' = chats
            /\ adm' = AdmRespond(500)
    /\ UNCHANGED <<users, nextChat, messages, cache, sess, nextSess, req, evicted>>

\* db.message.delete_many removes the chat's messages
DeleteMessages ==
    /\ adm.pc = "delmsgs"
    /\ messages' = [messages EXCEPT ![adm.chat] = << >>]
    /\ adm' = [adm EXCEPT !.pc = "delchat"]
    /\ UNCHANGED <<users, chats, nextChat, cache, sess, nextSess, req, evicted>>

\* db.chat.delete removes the chat; it raises while messages refer to it
DeleteChat ==
    /\ adm.pc = "delchat"
    /\ IF adm.chat \in DOMAIN chats /\ RelationHolds(Remove(chats, adm.chat), messages)
       THEN /\ chats' = Remove(chats, adm.chat)
            /\ adm' = AdmRespond(200)
       ELSE /\ chats' = chats
            /\ adm' = AdmRespond(500)
    /\ UNCHANGED <<users, nextChat, messages, cache, sess, nextSess, req, evicted>>

\* a store call of rename or delete raises
AdmStoreError ==
    /\ adm.pc \in {"update", "delmsgs", "delchat"}
    /\ adm' = AdmRespond(500)
    /\ UNCHANGED <<store, cache, sess, nextSess, req,
                   evicted>>

\* ---------------------------------------------------------------- specification
Next ==
    \/ \E p \in Reqs : Start(p)
    \/ \E p \in Reqs : Upsert(p)
    \/ \E p \in Reqs : Find(p)
    \/ \E p \in Reqs : Create(p)
    \/ \E p \in Reqs : ApiStoreError(p)
    \/ \E p \in Reqs : TurnBegin(p)
    \/ \E p \in Reqs : Prime(p)
    \/ \E p \in Reqs : Ask(p)
    \/ \E p \in Reqs : StreamChunk(p)
    \/ \E p \in Reqs : StreamEnd(p)
    \/ \E p \in Reqs : ProviderError(p)
    \/ \E p \in Reqs : Commit(p)
    \/ \E p \in Reqs : Fetch(p)
    \/ \E p \in Reqs : StreamStoreError(p)
    \/ \E p \in Reqs : Disconnect(p)
    \/ AdmStart
    \/ RenameUpdate
    \/ DeleteMessages
    \/ DeleteChat
    \/ AdmStoreError

Spec == Init /\ [][Next]_vars

\* ---------------------------------------------------------------- properties
Last(f) == f[Len(f)]
HasKind(f, k) == \E i \in 1..Len(f) : f[i].kind = k
IsErrorText(t) == StartsWith(t, "Error:")
\* the texts of the content frames of f, in the order of f
RECURSIVE ContentTexts(_)
ContentTexts(f) ==
    IF f = << >> THEN << >>
    ELSE IF f[1].kind = "content" THEN <<f[1].text>> \o ContentTexts(Tail(f))
    ELSE ContentTexts(Tail(f))
NotErrorText(t) == ~IsErrorText(t)
\* request p is executing its turn on the provider
InTurn(p) == req[p].pc \in {"prime", "ask", "stream"}
\* the turn of r failed: a provider error, a missing context or an empty response
TurnFailed(r) ==
    /\ r.pc = "done"
    /\ r.frames # << >>
    /\ Last(r.frames).kind = "error"
    /\ Last(r.frames).text # SaveFailedText

\* C1: every chat's messages are a sequence of (user, ai) pairs; a turn that
\* ends with the metadata frame has stored two messages, a failed turn none;
\* and a chat's messages change only by a delete or by one commit that appends
\* the question of a request followed by its full answer.
MessagePairs ==
    \A c \in ChatIds :
        /\ Len(messages[c]) % 2 = 0
        /\ \A i \in 1..Len(messages[c]) :
              messages[c][i].role = IF i % 2 = 1 THEN "user" ELSE "ai"
TurnOutcome ==
    \A p \in Reqs :
        /\ HasKind(req[p].frames, "meta") => req[p].stored = 2
        /\ TurnFailed(req[p]) => req[p].stored = 0
        /\ req[p].stored \in {0, 2}
PairAppended(c) ==
    \E p \in Reqs :
        /\ req[p].pc = "commit" /\ req'[p].pc = "fetch" /\ req[p].rec = c
        /\ messages'[c] = messages[c] \o
              <<[role |-> "user", content |-> req[p].question],
                [role |-> "ai", content |-> ContentTexts(req[p].frames)]>>
C1_Atomicity ==
    /\ [](MessagePairs /\ TurnOutcome)
    /\ [][\A c \in ChatIds : \/ messages'[c] = messages[c]
                             \/ messages'[c] = << >>
                             \/ PairAppended(c)]_vars
\* one request's turn succeeded and another's failed on the same chat, which
\* holds exactly the pair of the successful turn
C1_Witness ==
    \E p, o \in Reqs :
        /\ p # o /\ req[p].rec = req[o].rec /\ req[p].rec \in DOMAIN chats
        /\ req[p].pc = "done" /\ HasKind(req[p].frames, "meta")
        /\ TurnFailed(req[o]) /\ req[o].calls > 0
        /\ Len(messages[req[p].rec]) = 2

\* C2 (as stated): while the last turn event on a chat is a provider error (no
\* request has begun a turn on it since), the cache has no entry for the chat,
\* so the next request on it is a cold resume.
C2_EvictedStaysAbsent == \A c \in evicted : c \notin DOMAIN cache

\* C3 (as stated): no two requests execute their turns on the same chat at the
\* same time.
C3_TurnsSerialized ==
    \A p, o \in Reqs : (p # o /\ InTurn(p) /\ InTurn(o)) => req[p].rec # req[o].rec

\* C4 (as stated): a request whose scrape failed for every URL is rejected
\* with status 500 and has made no provider call.
C4_AllFailedRejected ==
    \A p \in Reqs :
        req[p].allfail => /\ req[p].pc = "done" /\ req[p].status = 500
                          /\ req[p].calls = 0

\* C5: the step that finds the chat owned by another user answers 403 and
\* leaves chats, messages, cache and sessions unchanged; such a request has
\* scraped nothing, called the provider never and stored no message.
C5_UnauthorizedFrame ==
    /\ [][\A p \in Reqs :
            (/\ Find(p)
             /\ req[p].chatId \in DOMAIN chats
             /\ chats[req[p].chatId].userId # req[p].userId)
            => /\ req'[p].pc = "done" /\ req'[p].status = 403
               /\ UNCHANGED <<chats, messages, cache, sess, nextSess>>]_vars
    /\ [](\A p \in Reqs :
            req[p].status = 403 =>
                /\ req[p].doc = NoDoc /\ req[p].calls = 0 /\ req[p].stored = 0
                /\ req[p].session = NoSession /\ req[p].frames = << >>)
\* a request was answered 403 while the chat exists, has messages and a
\* cached session
C5_Witness ==
    \E p \in Reqs, c \in DOMAIN chats :
        /\ req[p].pc = "done" /\ req[p].status = 403
        /\ Len(messages[c]) = 2 /\ c \in DOMAIN cache

\* C6 (as stated): a request answered 403 or 404 has changed neither the
\* store (users, chats, messages) nor the cache.
C6_NoSideEffects ==
    \A p \in Reqs :
        (req[p].pc = "done" /\ req[p].status \in {403, 404}) => ~req[p].wrote

\* the stream of r ended without an error frame, the caller still connected
Succeeded(r) ==
    r.pc = "done" /\ r.status = 200 /\ ~r.cancelled /\ ~HasKind(r.frames, "error")

\* C7 (as stated): the content frames of a stream are the provider's non-empty
\* chunks in the order of their generation; a metadata frame is the last frame
\* of its stream and is sent only after the pair is stored; and a stream that
\* ended without an error frame carries its metadata frame.
C7_StreamOrder ==
    \A p \in Reqs :
        LET f == req[p].frames IN
        /\ ContentTexts(f) = SelectSeq(req[p].gen, NotErrorText)
        /\ \A i \in 1..Len(f) :
              f[i].kind = "meta" =>
                 /\ i = Len(f) /\ req[p].pc = "done" /\ req[p].stored = 2
        /\ Succeeded(req[p]) => HasKind(f, "meta")

\* C8: an error frame is the last frame of its stream and the stream has
\* ended: nothing follows it and there is at most one.
C8_ErrorEndsStream ==
    \A p \in Reqs :
        \A i \in 1..Len(req[p].frames) :
            req[p].frames[i].kind = "error" =>
                i = Len(req[p].frames) /\ req[p].pc = "done"
\* streams that ended with an error frame after a fragment: a provider error,
\* and a save failure
C8_Witness ==
    \E p, o \in Reqs :
        /\ p # o
        /\ Len(req[p].frames) = 2 /\ Last(req[p].frames) = ErrFrame(ProviderErrorText)
        /\ Len(req[o].frames) = 2 /\ Last(req[o].frames) = ErrFrame(SaveFailedText)

\* C9 (as stated): a stream that has ended, the caller still connected,
\* carries a metadata frame or an error frame as its last frame.
C9_AnswerOrError ==
    \A p \in Reqs :
        (req[p].pc = "done" /\ req[p].status = 200 /\ ~req[p].cancelled) =>
            /\ req[p].frames # << >>
            /\ Last(req[p].frames).kind \in {"meta", "error"}

\* C10 (as stated): the step that resumes the requester's own chat with a
\* non-empty URL list different from the stored one stores the client's list.
C10_UrlsOverwritten ==
    [][\A p \in Reqs :
         (/\ Find(p)
          /\ req[p].chatId \in DOMAIN chats
          /\ chats[req[p].chatId].userId = req[p].userId
          /\ req[p].urls # << >>
          /\ req[p].urls # chats[req[p].chatId].urls
          /\ req'[p].pc = "turn")
         => chats'[req[p].chatId].urls = req[p].urls]_vars

\* the step of request p that finds its own chat without a cached session
ColdResume(p) ==
    /\ Find(p)
    /\ req[p].chatId \in DOMAIN chats
    /\ chats[req[p].chatId].userId = req[p].userId
    /\ req[p].chatId \notin DOMAIN cache

\* C11: a cold resume either answers 500 with no document or goes on to the
\* turn with the document scraped from the chat's stored URL list, which is
\* the document the new-chat branch makes of that list; the document a
\* request primes with is scraped from the stored list of its chat; the
\* blocks of a stored list follow its order; and a stored record without
\* URLs is answered 500 with no document, no provider call and no message.
C11_ColdResumeContext ==
    /\ [][\A p \in Reqs :
            ColdResume(p) =>
               LET stored == chats[req[p].chatId].urls IN
               \/ /\ req'[p].pc = "done" /\ req'[p].status = 500
                  /\ req'[p].doc = NoDoc
               \/ /\ req'[p].pc = "turn"
                  /\ \E os \in [1..Len(stored) -> ScrapeOutcomes] :
                        /\ req'[p].doc = scrape_multiple_websites(stored, os)
                        /\ req'[p].doc =
                              NewChatPath([req[p] EXCEPT !.urls = stored], os).doc]_vars
    /\ [](\A p \in Reqs :
            (req[p].pc = "prime" /\ req[p].rec \in DOMAIN chats) =>
               \E os \in [1..Len(chats[req[p].rec].urls) -> ScrapeOutcomes] :
                  req[p].doc = scrape_multiple_websites(chats[req[p].rec].urls, os))
    /\ [](\A p \in Reqs, c \in ChatIds :
            (req[p].pc = "find" /\ c \notin DOMAIN cache) =>
               /\ LET out == ResumePath(req[p], c, << >>, << >>)
                  IN /\ out.pc = "done" /\ out.status = 500 /\ out.doc = NoDoc
                     /\ out.calls = 0 /\ out.stored = 0
               /\ \A os \in [1..2 -> ScrapeOutcomes] :
                     LET out == ResumePath(req[p], c, <<UrlPlain, UrlBlank>>, os)
                     IN out.pc = "turn" /\ out.doc =
                           ScrapeBlock(UrlPlain, scrape_website(UrlPlain, os[1]))
                           \o <<NL, NL>> \o
                           ScrapeBlock(UrlBlank, scrape_website(UrlBlank, os[2])))
\* a request that resumed a chat without a cached session is priming a new
\* session with the document scraped from the chat's stored list
C11_Witness ==
    \E p \in Reqs :
        /\ req[p].pc = "prime" /\ ~req[p].is_new /\ ~req[p].warm
        /\ req[p].rec \in DOMAIN chats
        /\ req[p].doc = scrape_multiple_websites(chats[req[p].rec].urls, <<"ok">>)

\* C12 (as stated): a request that found a cached session for its chat at the
\* lookup goes on to the turn without a document; it scrapes nothing, sends
\* no priming turn and opens no session; its question is sent, as its only
\* provider call, on the session that is cached when its turn begins; and no
\* step of it inserts a cache entry or replaces the session of one.
C12_WarmResume ==
    /\ [](\A p \in Reqs :
            req[p].warm =>
               /\ req[p].doc = NoDoc /\ ~req[p].allfail /\ ~req[p].is_new
               /\ req[p].pc # "prime" /\ req[p].calls <= 1
               /\ req[p].pc \in {"ask", "stream"} =>
                     req[p].session \in DOMAIN sess /\ sess[req[p].session] >= 1
               /\ (req[p].pc = "done" /\ ~req[p].cancelled) => req[p].calls = 1)
    /\ [][\A p \in Reqs :
            /\ (Find(p) /\ req[p].chatId \in DOMAIN cache \cap DOMAIN chats
                        /\ chats[req[p].chatId].userId = req[p].userId)
               => req'[p].warm /\ req'[p].pc = "turn"
            /\ (req'[p] # req[p] /\ req'[p].warm) =>
                  /\ (req[p].pc = "turn" /\ req'[p].pc = "ask") =>
                        /\ req[p].rec \in DOMAIN cache
                        /\ req'[p].session = cache[req[p].rec].session
                  /\ (req[p].pc = "ask" /\ req'[p].pc = "stream") =>
                        req'[p].calls = 1 /\ req'[p].session = req[p].session
                  /\ UNCHANGED nextSess
                  /\ DOMAIN sess' = DOMAIN sess
                  /\ DOMAIN cache' \subseteq DOMAIN cache
                  /\ \A c \in DOMAIN cache' :
                        cache'[c].session = cache[c].session]_vars

\* the question of request p is the content of a stored message
QuestionStored(p) ==
    \E c \in ChatIds : \E i \in 1..Len(messages[c]) :
        messages[c][i].content = Question(p)

C14_RenameFrame ==
    /\ [][(/\ AdmStart /\ adm'.op = "rename"
            /\ adm'.chat \in DOMAIN chats
            /\ chats[adm'.chat].userId # adm'.userId)
           => /\ adm'.pc = "done" /\ adm'.status = 403
              /\ UNCHANGED <<store, cache, sess>>]_vars
    /\ [][RenameUpdate =>
            /\ UNCHANGED <<users, messages, cache, sess, nextChat>>
            /\ DOMAIN chats' = DOMAIN chats
            /\ \A c \in DOMAIN chats :
                  IF c = adm.chat
                  THEN /\ chats[c].userId = adm.userId
                       /\ chats'[c] = [chats[c] EXCEPT !.title = adm.title]
                       /\ adm'.status = 200
                  ELSE chats'[c] = chats[c]]_vars
    /\ [][\A c \in DOMAIN chats \cap DOMAIN chats' :
            /\ chats'[c].userId = chats[c].userId
            /\ chats'[c].urls = chats[c].urls]_vars
    /\ []((adm.op = "rename" /\ adm.status = 403) => adm.pc = "done")
\* a rename by another user was answered 403: the chat has the title it was
\* created with, its messages and its cached session
C14_Witness ==
    \E c \in DOMAIN chats :
        /\ adm.op = "rename" /\ adm.chat = c /\ adm.status = 403
        /\ adm.userId # chats[c].userId
        /\ chats[c].title = chats[c].urls[1]
        /\ Len(messages[c]) = 2 /\ c \in DOMAIN cache
\* a rename by the owner has succeeded
C14_OwnerRenamed ==
    \E c \in DOMAIN chats :
        /\ adm.op = "rename" /\ adm.chat = c /\ adm.status = 200
        /\ chats[c].title = <<"t">> /\ chats[c].title # chats[c].urls[1]
        /\ Len(messages[c]) = 2 /\ c \in DOMAIN cache

UserCount(rows, u) ==
    BagCardinality([row \in {x \in BagToSet(rows) : x.id = u} |-> rows[row]])

\* C16: there is never more than one User row with the same id; the upsert
\* of a request leaves exactly one row with the request's userId and every
\* row that existed as it was; and no other step changes the User rows.
C16_UpsertIdempotent ==
    /\ [](\A u \in Users : UserCount(users, u) <= 1)
    /\ [][\A p \in Reqs :
            Upsert(p) =>
               /\ UserCount(users', req[p].userId) = 1
               /\ \A row \in BagToSet(users) :
                     CopiesIn(row, users') = CopiesIn(row, users)
               /\ \A u \in Users \ {req[p].userId} :
                     UserCount(users', u) = UserCount(users, u)]_vars
    /\ [][users' # users => \E p \in Reqs : Upsert(p)]_vars
\* two requests of the same user have completed their turns on the user's
\* chat, and the store has one User row
C16_Witness ==
    \E p, o \in Reqs :
        /\ p # o /\ req[p].rec = req[o].rec
        /\ req[p].stored = 2 /\ req[o].stored = 2
        /\ BagCardinality(users) = 1

\* session s is held by no request: no turn is using it
Abandoned(s) == \A o \in Reqs : req[o].session # s
\* session s is the session of a cache entry
Cached(s) == \E c \in DOMAIN cache : cache[c].session = s
\* the same of the state a step leads to
AbandonedNext(s) == \A o \in Reqs : req'[o].session # s
CachedNext(s) == \E c \in DOMAIN cache' : cache'[c].session = s

\* C17: the session of every cache entry has the priming turn in its history,
\* and so has the entry's mirror; an entry is inserted, or gets another
\* session, only by the step in which the priming call of a request on that
\* chat returns, and the session is the one that was primed; a session whose
\* priming call raised is left unprimed, uncached and held by no request, and
\* such a session stays so.
C17_CachedIsPrimed ==
    /\ [](\A c \in DOMAIN cache :
            /\ cache[c].session \in DOMAIN sess
            /\ sess[cache[c].session] >= 1
            /\ cache[c].history >= 1)
    /\ [][\A c \in DOMAIN cache' :
            (c \notin DOMAIN cache \/ cache[c].session # cache'[c].session) =>
               \E p \in Reqs :
                  /\ Prime(p) /\ req[p].rec = c
                  /\ cache'[c].session = req[p].session
                  /\ sess[req[p].session] = 0 /\ sess'[req[p].session] = 1]_vars
    /\ [][\A p \in Reqs :
            (ProviderError(p) /\ req[p].pc = "prime") =>
               /\ sess'[req[p].session] = 0
               /\ ~CachedNext(req[p].session)
               /\ AbandonedNext(req[p].session)]_vars
    /\ [][\A s \in DOMAIN sess :
            (sess[s] = 0 /\ Abandoned(s)) =>
               (sess'[s] = 0 /\ AbandonedNext(s) /\ ~CachedNext(s))]_vars
\* the priming call of one request raised; the chat has the cached, primed
\* session of the other request
C17_Witness ==
    \E p \in Reqs, s \in DOMAIN sess, c \in DOMAIN cache :
        /\ req[p].frames = <<ErrFrame(ProviderErrorText)>> /\ req[p].calls = 1
        /\ req[p].rec = c
        /\ sess[s] = 0 /\ Abandoned(s)
        /\ \A o \in Reqs : ~req[o].cancelled
        /\ sess[cache[c].session] >= 1

\* C18 (as stated): a request that begins to prime a session has a document,
\* and no stream ends with the missing-document-context error.
C18_ContextPresent ==
    \A p \in Reqs :
        /\ req[p].pc = "prime" => (req[p].doc # NoDoc /\ req[p].doc # << >>)
        /\ \A i \in 1..Len(req[p].frames) :
              req[p].frames[i] # ErrFrame(MissingContextText)

\* C19 (as stated): the step in which the stream of a turn is exhausted, the
\* provider having raised no error and the answer having text, goes on to
\* the commit of the pair.
C19_CompleteStreamCommits ==
    [][\A p \in Reqs :
         (StreamEnd(p) /\ req[p].full # << >>) => req'[p].pc = "commit"]_vars

\* C20 (as stated): a request whose stream ended with the save-failure frame
\* has stored no message.
C20_SaveFailureStoresNothing ==
    \A p \in Reqs :
        (req[p].frames # << >> /\ Last(req[p].frames) = ErrFrame(SaveFailedText))
            => req[p].stored = 0

\* C21 (as stated): every key of the cache is the id of a chat that exists in
\* the store.
C21_CacheKeysExist == \A c \in DOMAIN cache : c \in DOMAIN chats
====
